---- MODULE Spec2Model ----
(***************************************************************************)
(* SimpleGreedyExamSolver (algorithm.py) driven by the exam callback of    *)
(* main.py, as a state machine.  One step is one stretch of solve between  *)
(* two oracle calls or checkpoint writes.                                  *)
(***************************************************************************)
EXTENDS Integers, Sequences, FiniteSets, TLC

VARIABLES
    num_questions,    \* self.num_questions
    num_options,      \* self.num_options
    best_score,       \* self.best_score
    best_answers,     \* self.best_answers, slot -> option
    correct_answers,  \* self.correct_answers, slot -> option or None
    memory,           \* self.memory, slot -> [options, best_option, best_score]
    total_trials,     \* self.total_trials
    plateau_counter,  \* solve's plateau_counter
    pc,               \* where solve stands
    q_idx,            \* systematic_trial_phase's q_idx
    untried,          \* the options of q_idx still to try (rest of untried_options)
    improved,         \* systematic_trial_phase's improved
    forced,           \* the change random_forced_change returned
    disk,             \* the content of solver_memory.json
    hidden,           \* the exam's answer key (never read by the solver)
    oracle,           \* the exam adapter: "hamming" while it has shown the true score
                      \* at every call, "faulty" since it first did not, "down" if
                      \* it never shows a score
    faults,           \* how often the environment has failed so far
    has_reset,        \* hasattr(exam_callback, 'reset_exam')
    fatal,            \* exam_callback has raised (the browser is gone)
    text_in_call,     \* try_option_for_question's score_text, inside a call
    score_in_call,    \* try_option_for_question's return value, inside a call
    start_score,      \* history: best_score when the systematic attempt under way
                      \* was started by solve's loop (0 outside an attempt)
    greedy            \* the locals of exam_automation.py's run_greedy_search

vars == <<num_questions, num_options, best_score, best_answers, correct_answers,
          memory, total_trials, plateau_counter, pc, q_idx, untried, improved,
          forced, disk, hidden, oracle, has_reset, faults, fatal, text_in_call,
          score_in_call, start_score, greedy>>

solver == <<best_score, best_answers, correct_answers, memory, total_trials>>

env == <<num_questions, num_options, hidden, has_reset>>

\* the locals of try_option_for_question; a step of solve holds a whole call, so
\* between the steps of solve they hold nothing
locals == <<text_in_call, score_in_call>>

----------------------------------------------------------------------------
(* Bounds of the model *)

\* total_trials counts up to MaxTrials and stays there
MaxTrials == 7

\* the environment fails at most MaxFaults times in one behaviour: a faulty adapter's
\* wrong answers, failed checkpoint writes and restarts of the program together
MaxFaults == 1

\* the AI debate is free on the first MaxDebated questions and right on the others
MaxDebated == 3

\* plateau_counter counts up to MAX_PLATEAU_ATTEMPTS + PlateauSlack and stays there
PlateauSlack == 0

----------------------------------------------------------------------------
(* Values *)

\* Python's None in correct_answers (options are 1..num_options)
None == 0

MAX_PLATEAU_ATTEMPTS == 5

\* load_memory's "if self.best_score >= 17"
PlateauClearScore == 17

Slots == 0 .. (num_questions - 1)

Options == 1 .. num_options

Min(a, b) == IF a < b THEN a ELSE b

\* an empty dict
EmptyDict == [o \in {} |-> 0]

\* d[k] = v on a dict
Put(d, k, v) == [x \in (DOMAIN d) \cup {k} |-> IF x = k THEN v ELSE d[x]]

\* range(1, num_options + 1) filtered by keep, in order
RECURSIVE OptionList(_, _)
OptionList(from, keep) ==
    IF from > num_options THEN <<>>
    ELSE IF from \in keep THEN <<from>> \o OptionList(from + 1, keep)
    ELSE OptionList(from + 1, keep)

----------------------------------------------------------------------------
(* Score texts: sequences of characters *)

DigitChars == <<"0", "1", "2", "3", "4", "5", "6", "7", "8", "9">>

IsDigit(c) == \E d \in 1 .. 10 : DigitChars[d] = c

DigitValue(c) == (CHOOSE d \in 1 .. 10 : DigitChars[d] = c) - 1

IsSpace(c) == c \in {" ", "\t", "\n"}

\* str(n) for n >= 0
RECURSIVE StrOf(_)
StrOf(n) == IF n < 10 THEN <<DigitChars[n + 1]>>
          ELSE StrOf(n \div 10) \o <<DigitChars[(n % 10) + 1]>>

\* int(t[from .. to]) for a run of digits
RECURSIVE IntOf(_, _, _)
IntOf(t, from, to) ==
    IF to < from THEN 0 ELSE 10 * IntOf(t, from, to - 1) + DigitValue(t[to])

\* the last index of the run of digits that starts at i
RECURSIVE DigitsEnd(_, _)
DigitsEnd(t, i) == IF i < Len(t) /\ IsDigit(t[i + 1]) THEN DigitsEnd(t, i + 1) ELSE i

\* the first index >= i that holds no white space (Len(t) + 1 if none)
RECURSIVE SkipSpaces(_, _)
SkipSpaces(t, i) == IF i <= Len(t) /\ IsSpace(t[i]) THEN SkipSpaces(t, i + 1) ELSE i

\* re: (\d+)\s*/\s*\d+ matches t from index i on
MatchAt(t, i) ==
    /\ IsDigit(t[i])
    /\ \E slash \in {SkipSpaces(t, DigitsEnd(t, i) + 1)} :
          /\ slash <= Len(t)
          /\ t[slash] = "/"
          /\ \E den \in {SkipSpaces(t, slash + 1)} : den <= Len(t) /\ IsDigit(t[den])

\* re.search: where the first match of the pattern starts in t, else where the
\* first match of the fallback \d+ starts; the empty set if neither matches
MatchStart(t) ==
    LET starts == {i \in 1 .. Len(t) : MatchAt(t, i)}
        runs == {i \in 1 .. Len(t) : IsDigit(t[i])}
        found == IF starts # {} THEN starts ELSE runs
    IN {i \in found : \A j \in found : i <= j}

\* the text the hidden-key oracle shows for score s: "s/N"
ScoreText(s) == StrOf(s) \o <<"/">> \o StrOf(num_questions)

\* the "0/30" exam_callback falls back to
ZeroOfThirty == <<"0", "/", "3", "0">>

----------------------------------------------------------------------------
(* The oracle: complete_exam behind exam_callback *)

\* the score of an assignment against the answer key
Hamming(guess) == Cardinality({i \in Slots : guess[i] = hidden[i]})

\* texts a faulty adapter may show instead of the score
FaultyTexts ==
    { <<"-", "1", "/">> \o StrOf(num_questions),
      StrOf(num_questions + 1) \o <<"/">> \o StrOf(num_questions) }

\* the ways complete_exam ends without a score
Failures ==
    { [kind |-> "playwright_error", text |-> <<>>, fault |-> 1],
      [kind |-> "exception", text |-> <<>>, fault |-> 1],
      [kind |-> "none", text |-> <<>>, fault |-> 1],
      [kind |-> "text", text |-> <<"o", "o", "p", "s">>, fault |-> 1] }

\* what complete_exam does with a guess: it shows the score, or (a fault) fails or
\* shows a wrong text instead; the "down" adapter only fails; once the browser is
\* gone every call raises
CompleteExam(guess) ==
    LET truth == [kind |-> "text", text |-> ScoreText(Hamming(guess)), fault |-> 0]
    IN IF fatal THEN {[kind |-> "playwright_error", text |-> <<>>, fault |-> 0]}
       ELSE IF oracle = "down" THEN {[f EXCEPT !.fault = 0] : f \in Failures}
       ELSE IF faults >= MaxFaults THEN {truth}
       ELSE {truth} \cup Failures
            \cup {[kind |-> "text", text |-> t, fault |-> 1] : t \in FaultyTexts}

\* main.py's exam_callback on what complete_exam did: it raises, or returns a score_text
exam_callback(out) ==
    IF out.kind = "playwright_error" THEN [raised |-> TRUE, is_none |-> FALSE, score_text |-> <<>>]
    ELSE IF out.kind = "exception" THEN [raised |-> FALSE, is_none |-> FALSE, score_text |-> ZeroOfThirty]
    ELSE IF out.kind = "none" \/ Len(out.text) = 0
         THEN [raised |-> FALSE, is_none |-> FALSE, score_text |-> ZeroOfThirty]
    ELSE [raised |-> FALSE, is_none |-> FALSE, score_text |-> out.text]

\* try_option_for_question's parsing of score_text: the score it returns
parse_score(score_text) ==
    LET scores == { IntOf(score_text, i, DigitsEnd(score_text, i)) : i \in MatchStart(score_text) }
    IN IF \E score \in scores : 0 <= score /\ score <= num_questions
       THEN CHOOSE score \in scores : TRUE
       ELSE 0

\* the value try_option_for_question returns on what exam_callback did
try_score(res) ==
    IF res.raised THEN 0
    ELSE IF res.is_none THEN 0
    ELSE parse_score(res.score_text)

\* total_trials += 1
NextTrials(t) == Min(t + 1, MaxTrials)

----------------------------------------------------------------------------
(* The checkpoint file *)

NoFile == [kind |-> "absent"]

\* an empty or half-written file
Truncated == [kind |-> "truncated"]

\* the slot whose key in the file is s
SlotOfKey(s) == CHOOSE i \in Slots : ToString(i) = s

OptionOfKey(s) == CHOOSE o \in Options : ToString(o) = s

\* the dict save_memory dumps
Progress(bs, ba, ca, mem, tt) ==
    [ best_score |-> bs,
      best_answers |-> ba,
      correct_answers |-> ca,
      memory |-> [k \in {ToString(i) : i \in DOMAIN mem} |->
                    LET v == mem[SlotOfKey(k)]
                    IN [ options |-> [o \in {ToString(x) : x \in DOMAIN v.options} |->
                                         v.options[OptionOfKey(o)]],
                         best_option |-> v.best_option,
                         best_score |-> v.best_score ]],
      total_trials |-> tt ]

\* save_memory with f earlier faults: the dump is on disk, or on a failure (caught
\* and logged) the old file (open failed) or a truncated one (the write failed
\* after open(..., "w"))
save_memory(bs, ba, ca, mem, tt, f) ==
    \/ /\ disk' = [kind |-> "json", progress |-> Progress(bs, ba, ca, mem, tt)]
       /\ faults' = f
    \/ /\ f < MaxFaults
       /\ disk' \in {disk, Truncated}
       /\ faults' = f + 1

\* no save_memory in this step
NoSave(f) == disk' = disk /\ faults' = f

FreshSlot == [options |-> EmptyDict, best_option |-> 1, best_score |-> 0]

reset_state ==
    [ best_score |-> 0,
      best_answers |-> [i \in Slots |-> 1],
      correct_answers |-> [i \in Slots |-> None],
      memory |-> [i \in Slots |-> FreshSlot],
      total_trials |-> 0 ]

\* the solver's fields after load_memory reads file d
load_memory(d) ==
    IF d.kind # "json" THEN reset_state
    ELSE LET p == d.progress
             mem == [i \in {SlotOfKey(k) : k \in DOMAIN p.memory} |->
                       LET v == p.memory[ToString(i)]
                       IN [ options |-> [o \in {OptionOfKey(x) : x \in DOMAIN v.options} |->
                                            v.options[ToString(o)]],
                            best_option |-> v.best_option,
                            best_score |-> v.best_score ]]
         IN [ best_score |-> p.best_score,
              best_answers |-> p.best_answers,
              correct_answers |-> p.correct_answers,
              memory |-> IF p.best_score >= PlateauClearScore
                         THEN [i \in Slots |->
                                 IF p.correct_answers[i] = None THEN FreshSlot ELSE mem[i]]
                         ELSE mem,
              total_trials |-> p.total_trials ]

----------------------------------------------------------------------------
(* Initial states: a solver constructed with no checkpoint on disk *)

NoForced == [q |-> 0, prev |-> 0, new |-> 0]

Configs == { [n |-> 3, k |-> 2] }

Constructed(d) ==
    /\ best_score = load_memory(d).best_score
    /\ best_answers = load_memory(d).best_answers
    /\ correct_answers = load_memory(d).correct_answers
    /\ memory = load_memory(d).memory
    /\ total_trials = load_memory(d).total_trials

\* no call of try_option_for_question is under way
NotCalled == text_in_call = <<>> /\ score_in_call = 0

\* no systematic attempt is under way, and run_greedy_search is not running
NoAttempt == start_score = 0 /\ greedy = [answers |-> <<>>]

Init ==
    /\ NotCalled
    /\ NoAttempt
    /\ \E c \in Configs :
          /\ num_questions = c.n
          /\ num_options = c.k
    /\ \/ /\ oracle = "hamming"
          /\ hidden \in [Slots -> Options]
          /\ has_reset = FALSE
       \/ /\ oracle = "down"
          /\ hidden = [i \in Slots |-> 1]
          /\ has_reset \in BOOLEAN
    /\ faults = 0
    /\ disk = NoFile
    /\ Constructed(disk)
    /\ plateau_counter = 0
    /\ pc = "start"
    /\ q_idx = 0
    /\ untried = <<>>
    /\ improved = FALSE
    /\ forced = NoForced
    /\ fatal = FALSE

----------------------------------------------------------------------------
(* solve, step by step *)

\* plateau_counter += 1
NextPlateau(c) == Min(c + 1, MAX_PLATEAU_ATTEMPTS + PlateauSlack)

\* the guess try_option_for_question builds from the best answers ba
Guess(ba, question_idx, option) == [ba EXCEPT ![question_idx] = option]

\* the bookkeeping of one oracle call that ended as out: a raise and a fault are noted
Called(out) ==
    /\ fatal' = (fatal \/ out.kind = "playwright_error")
    /\ oracle' = IF out.fault = 1 THEN "faulty" ELSE oracle

\* the answers ai_debate_answers may come back with: a model's vote matched by
\* [1-4] or random.randint(1, num_options), which are the options 1 .. num_options
\* of the solver main.py constructs (num_options = 4)
ai_debate_answers ==
    { [i \in Slots |-> IF i \in DOMAIN a THEN a[i] ELSE hidden[i]] :
        a \in [0 .. (Min(num_questions, MaxDebated) - 1) -> Options] }

\* solve up to the while loop: with an empty memory, the AI answers and their evaluation
solve_initial_evaluation ==
    /\ pc = "start"
    /\ pc' = "loop"
    /\ UNCHANGED <<env, greedy, locals, start_score, correct_answers, plateau_counter, q_idx, untried, improved, forced>>
    /\ IF \A i \in Slots : DOMAIN memory[i].options = {}
       THEN \E answers \in ai_debate_answers :
            \E out \in CompleteExam(Guess(answers, 0, answers[0])) :
               \E score \in {try_score(exam_callback(out))} :
               LET mem0 == [i \in Slots |-> [memory[i] EXCEPT !.best_option = answers[i]]]
                   mem1 == [mem0 EXCEPT ![0].options = Put(@, answers[0], score)]
                   trials == NextTrials(total_trials)
               IN /\ Called(out)
                  /\ best_answers' = answers
                  /\ total_trials' = trials
                  /\ IF score > 0
                     THEN /\ memory' = mem1
                          /\ best_score' = score
                          /\ save_memory(score, answers, correct_answers, mem1, trials,
                                         faults + out.fault)
                     ELSE /\ memory' = mem0
                          /\ UNCHANGED best_score
                          /\ NoSave(faults + out.fault)
       ELSE UNCHANGED <<solver, disk, faults, oracle, fatal>>

\* untried_options of question q under memory mem
UntriedOptions(mem, q) == OptionList(1, Options \ DOMAIN mem[q].options)

\* systematic_trial_phase's loop over the questions, from question q on: the first
\* question that is not confirmed and has untried options (num_questions if none)
RECURSIVE NextQuestion(_, _, _)
NextQuestion(ca, mem, q) ==
    IF q >= num_questions THEN num_questions
    ELSE IF ca[q] # None \/ UntriedOptions(mem, q) = <<>> THEN NextQuestion(ca, mem, q + 1)
    ELSE q

\* systematic_trial_phase goes on with question q: to its first untried option, or
\* to the end of the phase
ToQuestion(ca, mem, q) ==
    LET next == NextQuestion(ca, mem, q)
    IN IF next >= num_questions
       THEN /\ pc' = "sys_end"
            /\ q_idx' = 0
            /\ untried' = <<>>
       ELSE /\ pc' = "sys_option"
            /\ q_idx' = next
            /\ untried' = UntriedOptions(mem, next)

\* the head of solve's while loop, and the start of systematic_trial_phase
solve_loop_head ==
    /\ pc = "loop"
    /\ UNCHANGED <<env, greedy, locals, solver, disk, faults, forced, oracle, fatal>>
    /\ IF best_score >= num_questions \/ (\A i \in Slots : correct_answers[i] # None)
       THEN /\ pc' = "fill"
            /\ UNCHANGED <<plateau_counter, q_idx, untried, improved, start_score>>
       ELSE /\ start_score' = best_score
            /\ plateau_counter' =
                   IF plateau_counter >= MAX_PLATEAU_ATTEMPTS /\ has_reset
                   THEN 0 ELSE plateau_counter
            /\ improved' = FALSE
            /\ ToQuestion(correct_answers, memory, 0)

\* the tried option is written into correct_answers after every valid trial
ConfirmEveryValidTrial(ca, q, option, score, bs) ==
    [ca EXCEPT ![q] = option]

\* "if score == self.num_questions: self.correct_answers[q] = option", reached only
\* under "if score > self.best_score"
ConfirmIfPerfect(ca, q, option, score, bs) ==
    IF score > bs /\ score = num_questions THEN [ca EXCEPT ![q] = option] ELSE ca

\* one pass of systematic_trial_phase's loop over the untried options of q_idx, and
\* the way to the next one
systematic_trial_phase_trial ==
    /\ pc = "sys_option"
    /\ untried # <<>>
    /\ UNCHANGED <<env, greedy, locals, start_score, forced, plateau_counter>>
    /\ LET option == Head(untried)
           guess == Guess(best_answers, q_idx, option)
       IN \E out \in CompleteExam(guess) :
          \E score \in {try_score(exam_callback(out))} :
          LET trials == NextTrials(total_trials)
              mem1 == [memory EXCEPT ![q_idx].options = Put(@, option, score)]
              better == score > mem1[q_idx].best_score
              mem2 == IF better
                      THEN [mem1 EXCEPT ![q_idx].best_score = score,
                                        ![q_idx].best_option = option]
                      ELSE mem1
              ba1 == IF score > best_score
                     THEN [best_answers EXCEPT ![q_idx] = option] ELSE best_answers
              bs1 == IF score > best_score THEN score ELSE best_score
              ca1 == ConfirmIfPerfect(correct_answers, q_idx, option, score, best_score)
          IN /\ Called(out)
             /\ total_trials' = trials
             /\ IF score > 0
                THEN /\ memory' = mem2
                     /\ improved' = (improved \/ better)
                     /\ best_score' = bs1
                     /\ correct_answers' = ca1
                     /\ best_answers' = [ba1 EXCEPT ![q_idx] = mem2[q_idx].best_option]
                     /\ IF score > best_score
                        THEN save_memory(bs1, ba1, ca1, mem2, trials, faults + out.fault)
                        ELSE NoSave(faults + out.fault)
                ELSE /\ UNCHANGED <<memory, improved, best_score, correct_answers,
                                    best_answers>>
                     /\ NoSave(faults + out.fault)
             /\ IF Tail(untried) # <<>>
                THEN /\ untried' = Tail(untried)
                     /\ UNCHANGED <<pc, q_idx>>
                ELSE IF best_score' = num_questions
                     THEN ToQuestion(correct_answers', memory', num_questions)
                     ELSE ToQuestion(correct_answers', memory', q_idx + 1)

\* systematic_trial_phase_end with a save_memory that lets the write error out: the
\* exception ends solve
systematic_trial_phase_end_SaveRaises ==
    /\ pc = "sys_end"
    /\ save_memory(best_score, best_answers, correct_answers, memory, total_trials, faults)
    /\ UNCHANGED <<env, greedy, locals, solver, forced, untried, q_idx, oracle, fatal>>
    /\ start_score' = 0
    /\ improved' = FALSE
    /\ IF faults' # faults
       THEN /\ pc' = "done"
            /\ UNCHANGED plateau_counter
       ELSE IF best_score = num_questions
       THEN /\ pc' = "fill"
            /\ UNCHANGED plateau_counter
       ELSE IF improved
            THEN /\ plateau_counter' = 0
                 /\ pc' = "loop"
            ELSE /\ plateau_counter' = NextPlateau(plateau_counter)
                 /\ pc' = "forced_change"

\* the end of systematic_trial_phase (the summary report and save_memory) and what
\* solve does with its result: perfect score, improvement or plateau
systematic_trial_phase_end ==
    /\ pc = "sys_end"
    /\ save_memory(best_score, best_answers, correct_answers, memory, total_trials, faults)
    /\ UNCHANGED <<env, greedy, locals, solver, forced, untried, q_idx, oracle, fatal>>
    /\ start_score' = 0
    /\ improved' = FALSE
    /\ IF best_score = num_questions
       THEN /\ pc' = "fill"
            /\ UNCHANGED plateau_counter
       ELSE IF improved
            THEN /\ plateau_counter' = 0
                 /\ pc' = "loop"
            ELSE /\ plateau_counter' = NextPlateau(plateau_counter)
                 /\ pc' = "forced_change"

\* random_forced_change, and solve's break when it changed nothing
random_forced_change ==
    /\ pc = "forced_change"
    /\ UNCHANGED <<env, greedy, locals, start_score, best_score, correct_answers, memory, total_trials, untried, q_idx,
                   improved, plateau_counter, oracle, fatal>>
    /\ LET changeable_indices == {i \in Slots : correct_answers[i] = None}
       IN IF changeable_indices = {}
          THEN /\ pc' = "fill"
               /\ UNCHANGED <<best_answers, disk, faults, forced>>
          ELSE \E q \in changeable_indices :
               LET current_option == best_answers[q]
                   possible_options == Options \ {current_option}
               IN IF possible_options = {}
                  THEN /\ pc' = "fill"
                       /\ UNCHANGED <<best_answers, disk, faults, forced>>
                  ELSE \E new_option \in possible_options :
                       /\ best_answers' = [best_answers EXCEPT ![q] = new_option]
                       /\ save_memory(best_score, best_answers', correct_answers,
                                      memory, total_trials, faults)
                       /\ forced' = [q |-> q, prev |-> current_option, new |-> new_option]
                       /\ pc' = "forced_trial"

\* solve's test of the random change
solve_forced_trial ==
    /\ pc = "forced_trial"
    /\ pc' = "loop"
    /\ forced' = NoForced
    /\ UNCHANGED <<env, greedy, locals, start_score, untried, q_idx, improved>>
    /\ LET q == forced.q
           new_option == forced.new
           guess == Guess(best_answers, q, new_option)
       IN \E out \in CompleteExam(guess) :
          \E score \in {try_score(exam_callback(out))} :
          LET trials == NextTrials(total_trials)
              mem1 == [memory EXCEPT ![q].options = Put(@, new_option, score)]
              mem2 == IF score > best_score
                      THEN [mem1 EXCEPT ![q].best_score = score,
                                        ![q].best_option = new_option]
                      ELSE mem1
              bs1 == IF score > best_score THEN score ELSE best_score
              ca1 == ConfirmIfPerfect(correct_answers, q, new_option, score, best_score)
          IN /\ Called(out)
             /\ total_trials' = trials
             /\ UNCHANGED best_answers
             /\ IF score > 0
                THEN /\ memory' = mem2
                     /\ best_score' = bs1
                     /\ correct_answers' = ca1
                     /\ plateau_counter' = IF score > best_score THEN 0 ELSE plateau_counter
                     /\ save_memory(bs1, best_answers, ca1, mem2, trials, faults + out.fault)
                ELSE /\ UNCHANGED <<memory, best_score, correct_answers, plateau_counter>>
                     /\ NoSave(faults + out.fault)

\* solve's end without the fill-in loop: the unknown answers stay None
solve_fill_NoFill ==
    /\ pc = "fill"
    /\ pc' = "done"
    /\ save_memory(best_score, best_answers, correct_answers, memory, total_trials, faults)
    /\ UNCHANGED <<env, greedy, locals, start_score, best_score, best_answers, correct_answers, memory,
                   total_trials, untried, q_idx, improved, plateau_counter, forced, oracle,
                   fatal>>

\* the end of solve: the unknown answers filled with the best guesses, saved, returned
solve_fill ==
    /\ pc = "fill"
    /\ pc' = "done"
    /\ correct_answers' = [i \in Slots |->
                             IF correct_answers[i] = None
                             THEN memory[i].best_option ELSE correct_answers[i]]
    /\ save_memory(best_score, best_answers, correct_answers', memory, total_trials, faults)
    /\ UNCHANGED <<env, greedy, locals, start_score, best_score, best_answers, memory, total_trials, untried, q_idx,
                   improved, plateau_counter, forced, oracle, fatal>>

\* the positions of solve whose next step may write the checkpoint
SavingSteps == {"start", "sys_option", "sys_end", "forced_change", "forced_trial", "fill"}

\* the process ends or is killed, possibly in the middle of a checkpoint write, and
\* the program is started again: a new solver is constructed from the file on disk
Restart ==
    /\ faults < MaxFaults
    /\ faults' = faults + 1
    /\ \/ disk' = disk
       \/ pc \in SavingSteps /\ disk' = Truncated
    /\ \E loaded \in {load_memory(disk')} :
          /\ best_score' = loaded.best_score
          /\ best_answers' = loaded.best_answers
          /\ correct_answers' = loaded.correct_answers
          /\ memory' = loaded.memory
          /\ total_trials' = loaded.total_trials
    /\ plateau_counter' = 0
    /\ pc' = "start"
    /\ q_idx' = 0
    /\ untried' = <<>>
    /\ improved' = FALSE
    /\ forced' = NoForced
    /\ fatal' = FALSE
    /\ UNCHANGED <<env, greedy, locals, oracle>>
    /\ start_score' = 0

\* an oracle call is made in this step
OracleCall ==
    /\ pc' # "start"
    /\ \/ pc \in {"sys_option", "forced_trial"}
       \/ pc = "start" /\ \A i \in Slots : DOMAIN memory[i].options = {}

Next ==
    \/ solve_initial_evaluation
    \/ solve_loop_head
    \/ systematic_trial_phase_trial
    \/ systematic_trial_phase_end
    \/ random_forced_change
    \/ solve_forced_trial
    \/ solve_fill
    \/ Restart

Spec == Init /\ [][Next]_vars

\* the steps of solve
Solve ==
    \/ solve_initial_evaluation
    \/ solve_loop_head
    \/ systematic_trial_phase_trial
    \/ systematic_trial_phase_end
    \/ random_forced_change
    \/ solve_forced_trial
    \/ solve_fill

\* the program keeps running until solve returns
FairSpec == Spec /\ WF_vars(Solve)

----------------------------------------------------------------------------
(* Larger exams, followed up to the first random forced change *)

LargeConfigs == { [n |-> 5, k |-> 4], [n |-> 18, k |-> 2] }

InitLarge ==
    /\ NotCalled
    /\ NoAttempt
    /\ \E c \in LargeConfigs :
          /\ num_questions = c.n
          /\ num_options = c.k
    /\ oracle = "hamming"
    /\ hidden = [i \in Slots |-> (i % num_options) + 1]
    /\ has_reset = FALSE
    /\ faults = 0
    /\ disk = NoFile
    /\ Constructed(disk)
    /\ plateau_counter = 0
    /\ pc = "start"
    /\ q_idx = 0
    /\ untried = <<>>
    /\ improved = FALSE
    /\ forced = NoForced
    /\ fatal = FALSE

NextLarge ==
    \/ solve_initial_evaluation
    \/ solve_loop_head
    \/ systematic_trial_phase_trial
    \/ systematic_trial_phase_end
    \/ solve_fill
    \/ Restart

SpecLarge == InitLarge /\ [][NextLarge]_vars

----------------------------------------------------------------------------
(* The claims *)

\* this step is a Restart
RestartStep == pc' = "start" /\ faults' = faults + 1

\* this step is a trial of the systematic phase or of a random forced change
TrialStep == pc \in {"sys_option", "forced_trial"} /\ pc' # "start"

\* the assignment a trial step submits
SubmittedGuess ==
    IF pc = "forced_trial" THEN Guess(best_answers, forced.q, forced.new)
    ELSE Guess(best_answers, q_idx, Head(untried))

\* C1: with a Hamming oracle and no fault, once an evaluation has been valid,
\* best_answers scores exactly best_score
C1_BestAnswersScoreBestScore ==
    (oracle = "hamming" /\ faults = 0 /\ best_score > 0)
        => Hamming(best_answers) = best_score

\* C2: no step of a run lowers best_score, the initial evaluation of a run resumed
\* from a checkpoint included (the restart itself only loads the checkpoint)
C2_BestScoreNonDecreasing ==
    [][RestartStep \/ best_score' >= best_score]_vars

\* C3: with a Hamming oracle and no fault, every non-null correct_answers entry, in
\* memory and in the checkpoint on disk, is the slot's hidden correct option
C3_ConfirmationSound ==
    (oracle = "hamming" /\ faults = 0) =>
        /\ \A i \in Slots : correct_answers[i] # None => correct_answers[i] = hidden[i]
        /\ disk.kind = "json" =>
              \A i \in Slots : disk.progress.correct_answers[i] # None
                                  => disk.progress.correct_answers[i] = hidden[i]

\* C4: a trial never submits an assignment that holds, for a slot whose
\* correct_answers entry is set, another option than that entry
C4_ConfirmedSlotsSentAsConfirmed ==
    [][(TrialStep /\ faults = 0)
         => \A i \in Slots : correct_answers[i] # None
                               => SubmittedGuess[i] = correct_answers[i]]_vars

\* C5: within a run, a correct_answers entry that is set keeps its value
C5_ConfirmedNeverAltered ==
    [][RestartStep \/ \A i \in Slots : correct_answers[i] # None
                                         => correct_answers'[i] = correct_answers[i]]_vars

\* C5's case: a slot was confirmed, a later option of the same slot was tried after
\* that, the phase has ended and saved, and the fill-in is next
C5_ConfirmedThenTriedOn ==
    /\ pc = "fill"
    /\ \E i \in Slots : /\ i > 0
                        /\ correct_answers[i] # None
                        /\ \E o \in DOMAIN memory[i].options : o > correct_answers[i]

\* C6: with a Hamming oracle and no fault, when solve has returned with
\* best_score = N, the returned assignment is the hidden vector
C6_PerfectScoreReturnsHidden ==
    (oracle = "hamming" /\ faults = 0 /\ pc = "done" /\ best_score = num_questions)
        => correct_answers = hidden

\* C7: from a fresh start with N = 5, K = 4 and a Hamming oracle, the systematic
\* single-change pass is never exhausted without the hidden vector found
C7_SystematicPassFindsHidden ==
    (num_questions = 5 /\ num_options = 4 /\ oracle = "hamming" /\ faults = 0)
        => pc # "forced_change"

\* C8: solve terminates, also with an oracle that always fails
C8_SolveTerminates == (oracle = "down") => <>(pc = "done")

\* C9: after exam_callback has raised, no further oracle call is made
C9_NoCallAfterFatal == [][fatal => ~OracleCall]_vars

\* C10: a trial whose oracle call fails or shows an unparseable or out-of-range text
\* changes nothing but total_trials, which goes up by one
C10_FailedTrialSkipped ==
    [][(TrialStep /\ oracle = "hamming" /\ oracle' = "faulty" /\ total_trials < MaxTrials)
         => /\ best_score' = best_score
            /\ best_answers' = best_answers
            /\ correct_answers' = correct_answers
            /\ memory' = memory
            /\ total_trials' = total_trials + 1]_vars

\* C11: a systematic trial whose oracle call failed is followed by a trial of the
\* same assignment (a retry)
C11_FailedCallRetried ==
    [][(TrialStep /\ oracle = "down" /\ pc = "sys_option" /\ pc' = "sys_option")
         => SubmittedGuess' = SubmittedGuess]_vars

\* C12: when a trial is about to call the oracle, the checkpoint on disk holds the
\* solver's state as the last oracle call left it (no checkpoint write has failed)
C12_CheckpointUpToDateBeforeCall ==
    (pc \in {"sys_option", "forced_trial"} /\ oracle = "hamming" /\ faults = 0
       /\ disk.kind = "json")
        => \E p \in {Progress(best_score, best_answers, correct_answers, memory,
                              total_trials)} :
              /\ disk.progress.best_score = p.best_score
              /\ disk.progress.best_answers = p.best_answers
              /\ disk.progress.correct_answers = p.correct_answers
              /\ disk.progress.memory = p.memory

\* the checkpoint save_memory writes right after load_memory has read the one on disk
Reloaded == load_memory(disk)

\* C13: load_memory followed at once by save_memory writes the checkpoint it read
C13_LoadSaveRoundTrip ==
    disk.kind = "json"
        => Progress(Reloaded.best_score, Reloaded.best_answers,
                    Reloaded.correct_answers, Reloaded.memory,
                    Reloaded.total_trials) = disk.progress

\* C14: a run resumed from a checkpoint with progress (a best score above 0) keeps
\* the loaded best_answers and best_score through the start of solve: no fresh
\* initial evaluation overwrites them
C14_ResumeKeepsLoadedBest ==
    [][(pc = "start" /\ disk.kind = "json" /\ best_score > 0 /\ ~RestartStep)
         => (best_answers' = best_answers /\ best_score' = best_score)]_vars

\* C15: when the program is restarted with a checkpoint on disk, also after it was
\* killed in the middle of save_memory, the new run starts from that checkpoint
C15_RestartResumesLastCheckpoint ==
    [][(RestartStep /\ disk.kind = "json")
         => /\ best_score' = disk.progress.best_score
            /\ best_answers' = disk.progress.best_answers
            /\ correct_answers' = disk.progress.correct_answers
            /\ total_trials' = disk.progress.total_trials]_vars


\* C16: a save_memory whose write fails (at the end of a systematic pass or in the
\* final fill-in) leaves best_score, best_answers, correct_answers, memory and
\* total_trials as the step without the failure leaves them, and solve goes on to
\* the step it takes after a successful save
C16_FailedSaveAbsorbed ==
    [][((pc \in {"sys_end", "fill"}) /\ faults' # faults /\ ~RestartStep)
         => /\ UNCHANGED <<best_score, best_answers, memory, total_trials>>
            /\ pc = "sys_end" =>
                  /\ UNCHANGED correct_answers
                  /\ pc' = IF best_score = num_questions THEN "fill"
                           ELSE IF improved THEN "loop" ELSE "forced_change"
            /\ pc = "fill" =>
                  /\ pc' = "done"
                  /\ \A i \in Slots : correct_answers[i] # None
                                         => correct_answers'[i] = correct_answers[i]]_vars

\* a systematic pass ended with a failed checkpoint write and the search went on to a
\* forced change
C16_SearchGoesOnAfterFailedSave ==
    /\ pc = "forced_change"
    /\ disk = Truncated
    /\ best_score > 0
    /\ total_trials > 1


\* the slot a trial step changes and the option it tries there
TrialSlot == IF pc = "forced_trial" THEN forced.q ELSE q_idx

TrialOption == IF pc = "forced_trial" THEN forced.new ELSE Head(untried)

\* C17: best_score and every score stored in memory lie in 0 .. num_questions, and
\* what a trial on the Hamming oracle records is the score of the submitted
\* assignment: a text with a value outside 0 .. num_questions is not recorded
C17_OnlyScoresInRangeRecorded ==
    [][/\ best_score' \in 0 .. num_questions
       /\ \A i \in Slots : \A o \in DOMAIN memory'[i].options :
             memory'[i].options[o] \in 0 .. num_questions
       /\ (TrialStep /\ oracle = "hamming" /\ memory' # memory)
             => memory'[TrialSlot].options[TrialOption] = Hamming(SubmittedGuess)]_vars


----------------------------------------------------------------------------
(* The score parsing of try_option_for_question on its own *)

\* the length of the longest raw text drawn
MaxRawLen == 4

\* the characters a raw text is drawn from
RawChars == {"-", "/", " ", "x", "0", "1", "3", "4"}

\* the raw outputs exam_callback may hand to try_option_for_question
RawTexts == UNION { [1 .. n -> RawChars] : n \in 0 .. MaxRawLen }

\* a solver constructed for 3 questions with no checkpoint, and a call of
\* try_option_for_question that has just received score_text from exam_callback
InitParse ==
    /\ num_questions = 3
    /\ num_options = 2
    /\ oracle = "hamming"
    /\ hidden = [i \in Slots |-> 1]
    /\ has_reset = FALSE
    /\ faults = 0
    /\ disk = NoFile
    /\ Constructed(disk)
    /\ plateau_counter = 0
    /\ pc = "parse"
    /\ q_idx = 0
    /\ untried = <<>>
    /\ improved = FALSE
    /\ forced = NoForced
    /\ fatal = FALSE
    /\ NoAttempt
    /\ text_in_call \in RawTexts
    /\ score_in_call = 0

\* the parsing and range check of try_option_for_question, up to its return
try_option_for_question_parse ==
    /\ pc = "parse"
    /\ pc' = "parsed"
    /\ score_in_call' = parse_score(text_in_call)
    /\ UNCHANGED <<env, greedy, solver, start_score, plateau_counter, q_idx, untried, improved, forced, disk,
                   oracle, faults, fatal, text_in_call>>

NextParse == try_option_for_question_parse

ParseSpec == InitParse /\ [][NextParse]_vars

\* where the number the parser reads starts in the raw text (no index: no digits)
ReadAt == MatchStart(text_in_call)

\* the raw text has no digit
NoDigits == \A i \in 1 .. Len(text_in_call) : ~IsDigit(text_in_call[i])

\* the number the parser reads, as the text states it
ReadValue(i) == IntOf(text_in_call, i, DigitsEnd(text_in_call, i))

\* the score the raw text states is negative: a minus sign stands before its digits
StatesNegative == \E i \in ReadAt : i > 1 /\ text_in_call[i - 1] = "-" /\ ReadValue(i) > 0

\* the score the raw text states exceeds num_questions
StatesTooMany == \E i \in ReadAt : ReadValue(i) > num_questions

\* C18: a raw output with no digits, with a negative score or with a score above
\* num_questions is rejected: try_option_for_question returns its failure value 0,
\* never the absolute value of a negative score
C18_BadRawOutputRejected ==
    (pc = "parsed" /\ (NoDigits \/ StatesNegative \/ StatesTooMany))
        => score_in_call = 0


\* C19: a trial that scores above best_score registers its slot as confirmed with the
\* option it tried, also when the score is below num_questions
C19_ImprovingTrialConfirmsSlot ==
    [][(TrialStep /\ oracle = "hamming" /\ faults' = 0 /\ best_score' > best_score)
         => correct_answers'[TrialSlot] = TrialOption]_vars


\* C20: the assignment solve returns has an option 1 .. num_options in every slot: a
\* slot that is confirmed when the search ends keeps its option, every other slot
\* gets memory's best option of the slot
C20_ReturnedAssignmentFilled ==
    [][(pc = "fill" /\ pc' = "done")
         => \A i \in Slots :
               /\ correct_answers'[i] \in Options
               /\ correct_answers'[i] = IF correct_answers[i] # None
                                        THEN correct_answers[i]
                                        ELSE memory[i].best_option]_vars

\* solve has returned after a trial reached the perfect score: the slot of that trial
\* was confirmed, the others were filled in
C20_ReturnedAfterPerfectTrial ==
    /\ pc = "done"
    /\ oracle = "hamming"
    /\ faults = 0
    /\ best_score = num_questions
    /\ total_trials > 1
    /\ \A i \in Slots : correct_answers[i] \in Options


\* C21: with a Hamming oracle and no fault, once best_score has reached
\* num_questions no trial submits a further assignment to the oracle in that run
C21_NoTrialAfterPerfectScore ==
    [][~(TrialStep /\ oracle = "hamming" /\ faults = 0 /\ best_score = num_questions)]_vars


\* the number of slots in which two assignments differ
Differ(a, b) == Cardinality({i \in Slots : a[i] # b[i]})

\* C22: with a Hamming oracle and no fault, a trial differs from best_answers in at
\* most one slot and its score differs from best_score by at most one
C22_TrialOneSlotOneStep ==
    [][(TrialStep /\ oracle = "hamming" /\ faults' = 0)
         => /\ Differ(SubmittedGuess, best_answers) <= 1
            /\ Hamming(SubmittedGuess) - best_score \in {-1, 0, 1}]_vars


\* C23: with a Hamming oracle and no fault, a trial whose score equals best_score
\* confirms no slot and leaves best_score and best_answers unchanged
C23_TieChangesNoBest ==
    [][(TrialStep /\ oracle = "hamming" /\ faults' = 0
          /\ Hamming(SubmittedGuess) = best_score)
         => UNCHANGED <<best_score, best_answers, correct_answers>>]_vars


\* C24: with a Hamming oracle and no fault, at the end of a systematic attempt that
\* did not reach the perfect score, plateau_counter is set to 0 exactly if best_score
\* rose during the attempt, and is raised by one otherwise
C24_PlateauCountsAttemptsWithoutRise ==
    [][(pc = "sys_end" /\ pc' # "start" /\ oracle = "hamming" /\ faults = 0
          /\ best_score < num_questions /\ plateau_counter < MAX_PLATEAU_ATTEMPTS)
         => /\ (plateau_counter' = 0) <=> (best_score > start_score)
            /\ best_score <= start_score => plateau_counter' = plateau_counter + 1]_vars


\* C25: when solve's loop starts an iteration with plateau_counter at
\* MAX_PLATEAU_ATTEMPTS or above, the counter is 0 when the systematic attempt
\* begins, whether or not the callback has a reset_exam
C25_PlateauResetAtThreshold ==
    [][(pc = "loop" /\ pc' \in {"sys_option", "sys_end"}
          /\ plateau_counter >= MAX_PLATEAU_ATTEMPTS)
         => plateau_counter' = 0]_vars


\* C26: a systematic trial tries an option not yet recorded for its slot, and the
\* systematic phase passes over no unconfirmed slot: a phase that begins while a slot
\* is unconfirmed has a slot to try (a slot whose options are all recorded has its
\* record cleared and is tried again)
C26_NoSlotLockedOut ==
    [][/\ (TrialStep /\ pc = "sys_option")
             => TrialOption \notin DOMAIN memory[TrialSlot].options
       /\ (pc = "loop" /\ pc' = "sys_end" /\ oracle = "hamming" /\ faults = 0)
             => \A i \in Slots : correct_answers[i] # None]_vars


\* the largest score recorded for slot i (a slot with a recorded score)
MaxRecorded(i) ==
    CHOOSE m \in {memory[i].options[o] : o \in DOMAIN memory[i].options} :
        \A o \in DOMAIN memory[i].options : memory[i].options[o] <= m

\* C27: with a Hamming oracle and no fault, for every slot with a recorded score
\* memory's best_option of the slot is the lowest option with the largest recorded
\* score, and memory's best_score of the slot is that score
C27_BestOptionIsArgmax ==
    (oracle = "hamming" /\ faults = 0 /\ pc # "start") =>
        \A i \in Slots :
            DOMAIN memory[i].options # {} =>
                /\ memory[i].best_score = MaxRecorded(i)
                /\ memory[i].best_option \in DOMAIN memory[i].options
                /\ memory[i].options[memory[i].best_option] = MaxRecorded(i)
                /\ \A o \in DOMAIN memory[i].options :
                      memory[i].options[o] = MaxRecorded(i) => memory[i].best_option <= o


\* C28: the first systematic trial of a run does not submit again the assignment the
\* initial evaluation has just submitted (after one oracle call, the assignment
\* evaluated so far is best_answers)
C28_NoAssignmentSubmittedTwice ==
    [][(TrialStep /\ pc = "sys_option" /\ oracle = "hamming" /\ faults = 0
          /\ total_trials = 1)
         => SubmittedGuess # best_answers]_vars


\* C29: with a Hamming oracle and no fault, an option a systematic trial has
\* evaluated, also with the score 0, is recorded in memory's options of its slot
\* with that score
C29_ValidZeroRecordedAsTested ==
    [][(TrialStep /\ pc = "sys_option" /\ oracle = "hamming" /\ faults' = 0)
         => /\ TrialOption \in DOMAIN memory'[TrialSlot].options
            /\ memory'[TrialSlot].options[TrialOption] = Hamming(SubmittedGuess)]_vars


----------------------------------------------------------------------------
(* run_greedy_search of exam_automation.py, on an exam that shows the Hamming score *)

\* the exams run_greedy_search is followed on: total_questions and NUM_OPTIONS
GreedyConfigs == { [n |-> 4, k |-> 2], [n |-> 3, k |-> 3] }

\* memory[q_hash] of a question not in the memory file (the tries log is left out:
\* it is appended to and never read)
NewQuestion == [current_option |-> 1, best_option |-> 1, best_score |-> 0]

\* the results of random.shuffle(question_order)
Shuffles == { o \in [1 .. num_questions -> Slots] :
                \A i, j \in 1 .. num_questions : o[i] = o[j] => i = j }

\* the options "for opt in range(1, NUM_OPTIONS + 1)" has left after opt, without
\* the question's current answer ("if opt == answers[q_hash]: continue")
OptionsAfter(opt, current) == {o \in Options : o > opt /\ o # current}

FirstOption(candidates) == CHOOSE o \in candidates : \A p \in candidates : o <= p

\* "for q_hash in question_order" reaches the question at position pos
StartQuestion(g, pos) ==
    [g EXCEPT !.pos = pos,
              !.best_option = g.answers[g.question_order[pos]],
              !.best_score = g.score,
              !.opt = FirstOption(OptionsAfter(0, g.answers[g.question_order[pos]]))]

\* run_greedy_search up to its while loop: no memory file, every question new, the
\* answers are the best_option of the memory
InitGreedy ==
    /\ \E c \in GreedyConfigs :
          /\ num_questions = c.n
          /\ num_options = c.k
    /\ oracle = "hamming"
    /\ hidden \in [Slots -> Options]
    /\ has_reset = FALSE
    /\ faults = 0
    /\ disk = NoFile
    /\ Constructed(disk)
    /\ plateau_counter = 0
    /\ pc = "greedy_submit"
    /\ q_idx = 0
    /\ untried = <<>>
    /\ improved = FALSE
    /\ forced = NoForced
    /\ fatal = FALSE
    /\ NotCalled
    /\ start_score = 0
    /\ greedy = [ answers |-> [i \in Slots |-> NewQuestion.best_option],
                  memory |-> [i \in Slots |-> NewQuestion],
                  saved |-> [i \in Slots |-> NewQuestion],
                  score |-> 0,
                  question_order |-> [i \in 1 .. num_questions |-> i - 1],
                  pos |-> 1,
                  opt |-> 1,
                  best_option |-> 1,
                  best_score |-> 0,
                  improved |-> FALSE ]

\* what no step of run_greedy_search changes
GreedyFrame ==
    UNCHANGED <<env, solver, locals, start_score, plateau_counter, q_idx, untried, improved,
                forced, disk, oracle, faults, fatal>>

\* the head of the while loop: the answers are submitted; on the perfect score the
\* memory is saved and the function returns, else a greedy round begins
greedy_submit ==
    /\ pc = "greedy_submit"
    /\ GreedyFrame
    /\ \E score \in {Hamming(greedy.answers)} :
          IF score = num_questions
          THEN /\ pc' = "greedy_done"
               /\ greedy' = [greedy EXCEPT !.score = score, !.saved = greedy.memory]
          ELSE /\ pc' = "greedy_trial"
               /\ \E question_order \in Shuffles :
                     greedy' = StartQuestion(
                                   [greedy EXCEPT !.score = score,
                                                  !.improved = FALSE,
                                                  !.question_order = question_order],
                                   1)

\* one pass of "for opt in range(1, NUM_OPTIONS + 1)": the trial of opt on the
\* question, and after the last option the replacement of the question's answer and
\* the way to the next question
greedy_trial ==
    /\ pc = "greedy_trial"
    /\ GreedyFrame
    /\ LET q_hash == greedy.question_order[greedy.pos]
           opt == greedy.opt
           trial_answers == [greedy.answers EXCEPT ![q_hash] = opt]
           trial_score == Hamming(trial_answers)
           mem1 == IF trial_score > greedy.memory[q_hash].best_score
                   THEN [greedy.memory EXCEPT ![q_hash].best_score = trial_score,
                                              ![q_hash].best_option = opt]
                   ELSE greedy.memory
           better == trial_score > greedy.best_score
           best_score1 == IF better THEN trial_score ELSE greedy.best_score
           best_option1 == IF better THEN opt ELSE greedy.best_option
           improved1 == greedy.improved \/ better
           tried == [greedy EXCEPT !.memory = mem1,
                                   !.best_score = best_score1,
                                   !.best_option = best_option1,
                                   !.improved = improved1]
           rest == OptionsAfter(opt, greedy.answers[q_hash])
           replaced == IF best_option1 # greedy.answers[q_hash]
                       THEN [tried EXCEPT !.answers[q_hash] = best_option1,
                                          !.memory[q_hash].current_option = best_option1,
                                          !.improved = TRUE]
                       ELSE tried
       IN IF trial_score = num_questions
          THEN /\ pc' = "greedy_done"
               /\ greedy' = [tried EXCEPT !.saved = mem1]
          ELSE IF rest # {}
          THEN /\ pc' = "greedy_trial"
               /\ greedy' = [tried EXCEPT !.opt = FirstOption(rest)]
          ELSE IF greedy.pos < num_questions
          THEN /\ pc' = "greedy_trial"
               /\ greedy' = StartQuestion(replaced, greedy.pos + 1)
          ELSE /\ pc' = "greedy_round_end"
               /\ greedy' = replaced

\* the end of a round: the memory is saved, and after a round without improvement
\* one answer is changed at random
greedy_round_end ==
    /\ pc = "greedy_round_end"
    /\ pc' = "greedy_submit"
    /\ GreedyFrame
    /\ \E saved \in {[greedy EXCEPT !.saved = greedy.memory]} :
          IF saved.improved
          THEN greedy' = saved
          ELSE \E q_hash \in Slots : \E new_opt \in Options \ {saved.answers[q_hash]} :
                  greedy' = [saved EXCEPT !.answers[q_hash] = new_opt,
                                          !.memory[q_hash].current_option = new_opt]

NextGreedy ==
    \/ greedy_submit
    \/ greedy_trial
    \/ greedy_round_end

GreedySpec == InitGreedy /\ [][NextGreedy]_vars

\* C30: in a greedy round on a Hamming exam, an answer is replaced only by an option
\* whose trial scored strictly more than the current answers score, so the score of
\* the answers never drops in a round, also after earlier questions of the round
\* have been improved
C30_GreedyRoundNeverWorsens ==
    [][(pc = "greedy_trial" /\ greedy'.answers # greedy.answers)
         => Hamming(greedy'.answers) > Hamming(greedy.answers)]_vars

====
